---------------------------- MODULE Spec2Model ----------------------------
(***************************************************************************)
(* The streaming test harness of hthuku95/video_sync:                      *)
(*   prog = "el" : test_elevenlabs_integration.py, test_all driving        *)
(*                 test_elevenlabs_tool once per entry of TEST_CASES;      *)
(*   prog = "ms" : test_multi_step.py, one run of test_multi_step_request. *)
(*   prog = "rc" : api_client_demo.py, one VideoEditorAPIClient and the    *)
(*                 calls made on it; the server's replies are choices.     *)
(* The backend, the network and the filesystem are the environment: every  *)
(* frame, delay, timeout, closure and file creation is a choice of \E.     *)
(* Time is counted in seconds since start_time.  A text is the set of the  *)
(* words it contains, so that `w in text` is membership and text.lower()   *)
(* maps every word to its lower-case form.  Artifact files come into being *)
(* (left by an earlier run, or written by the backend) and nothing removes *)
(* them during a run.                                                      *)
(***************************************************************************)
EXTENDS Integers, Sequences, FiniteSets, TLC

\* ------------------------------------------------------------- bounds
NumScenarios == 3      \* entries of TEST_CASES the suite iterates over
MaxFrames == 3         \* frames the backend delivers in one ElevenLabs attempt

\* ------------------------------------------------- program constants
RecvTimeout == 180     \* wait_for(websocket.recv(), timeout=180.0)
Ceiling == 120         \* if elapsed > 120
FrameCap == 20         \* if response_count > 20

Delays == {0, 120}     \* seconds a receive may take before a frame arrives

\* ---------------------------------------------------------------- text
CheckGlyph == "<check-mark>"
CrossGlyph == "<cross-mark>"

ELVocab == {CheckGlyph, CrossGlyph, "SAVED TO", "error"}
MSVocab == {"completed", "FINISHED", "Done", "working"}

LowerDropped(w) == w

Lower(w) ==
  CASE w = "SAVED TO" -> "saved to"
    [] w = "FINISHED" -> "finished"
    [] w = "Done"     -> "done"
    [] OTHER          -> w

LowerText(t) == {Lower(w) : w \in t}

Texts(vocab) == SUBSET vocab

\* A frame on the wire: plain text, a JSON value that is no object, or a JSON
\* object with an optional type and a content.  The content is a string with
\* the given words (or absent), or, when str is FALSE, a JSON value that is
\* no string (null, a number, a list).
NoFrame == [shape |-> "none", type |-> "none", words |-> {}, str |-> TRUE]

ELFrames ==
  [shape : {"text"}, type : {"none"}, words : Texts(ELVocab), str : {TRUE}]
    \cup [shape : {"object"}, type : {"message", "error"},
          words : Texts(ELVocab), str : {TRUE}]

MSFrames ==
  [shape : {"text", "array"}, type : {"none"}, words : {{}}, str : {TRUE}]
    \cup [shape : {"object"},
          type : {"message", "error", "progress", "other", "absent"},
          words : Texts(MSVocab), str : {TRUE}]
    \cup [shape : {"object"},
          type : {"message", "error", "progress", "other", "absent"},
          words : {{}}, str : {FALSE}]

\* The string websocket.recv() returns: the serialised object carries the
\* value of its type field next to its content.
Raw(f) == IF f.shape = "object" /\ f.type # "absent" THEN f.words \cup {f.type}
          ELSE f.words


\* ---------------------------------------------------------------- state
VARIABLES
  prog,      \* which script runs: "el", "ms" or "rc"
  files,     \* scenarios whose expected_file exists on disk
  spc,       \* test_all: "call", "running", "pause", "summary", "done"
  i,         \* test_all: index of the current entry of TEST_CASES, from 1
  results,   \* test_all: the results list
  passed,    \* test_all: passed of the summary
  total,     \* test_all: total of the summary
  rate,      \* test_all: the percentage the summary prints
  npause,    \* inter-scenario sleeps done so far
  run,       \* the current attempt: its position, locals and what it did
  client     \* the VideoEditorAPIClient: token, user_info, and the last call

suiteVars == <<spc, i, results, passed, total, rate, npause>>
vars == <<prog, files, suiteVars, run, client>>

\* The attempt before its first statement.
\*   pc       position in the runner
\*   ws       the websocket: "none", "open", "closed"
\*   frame    the last frame websocket.recv() returned
\*   clock    seconds since start_time
\*   response_count   the multi-step runner's counter
\*   outcome  the terminal branch taken, by the message it prints
\*   reason   which branch that was
\*   found    what the settle re-check printed: "unchecked", "found", "missing"
\*   reported the elapsed time a timeout message printed
\*   last     how the last receive ended: "none", "frame", "timeout", "raised"
\*   file_seen  what os.path.exists returned for the last frame
\*   nopen, nsend, nrecv, nproc, nexists, nsettle   calls made so far
FreshRun(start) ==
  [pc |-> start, ws |-> "none", frame |-> NoFrame, clock |-> 0,
   response_count |-> 0, outcome |-> "Running", reason |-> "none",
   found |-> "unchecked", reported |-> 0, last |-> "none", file_seen |-> FALSE,
   nopen |-> 0, nsend |-> 0, nrecv |-> 0, nproc |-> 0, nexists |-> 0,
   nsettle |-> 0]

\* ------------------------------------------------ REST client: values
None == "None"               \* Python's None, JSON's null
Absent == "absent"           \* the key is not in the reply
EmptyToken == ""
Tokens == {"jwt1", "jwt2"}
UserInfos == {"user1", "user2"}

\* What a request comes back with: the parsed JSON body, or an exception of
\* requests or of response.json().
Raises == [raises |-> TRUE]

Replies ==
  [raises : {FALSE}, success : BOOLEAN,
   token : {Absent, None, EmptyToken} \cup Tokens,
   user : {Absent, None} \cup UserInfos]

\* __init__, before any call.  op is the last method called, sent whether
\* it issued a request, ret what it returned: "ok" or "failed" by the
\* success field of the result, "raised" when it raised.
FreshClient ==
  [token |-> None, user_info |-> None, op |-> "none", sent |-> FALSE,
   ret |-> "none"]

Init ==
  /\ prog \in {"el", "ms", "rc"}
  /\ client = FreshClient
  /\ files = {}
  /\ spc = IF prog = "el" THEN "call" ELSE "single"
  /\ i = 1
  /\ results = <<>>
  /\ passed = 0
  /\ total = 0
  /\ rate = 0
  /\ npause = 0
  /\ run = FreshRun(IF prog = "ms" THEN "connect" ELSE "idle")

\* ------------------------------------------- ElevenLabs runner: decisions
HasSuccessMarkerCaseSensitive(response) ==
  CheckGlyph \in response \/ "saved to" \in response

HasSuccessMarker(response) ==
  CheckGlyph \in response \/ "saved to" \in LowerText(response)

HasErrorMarker(response) ==
  CrossGlyph \in response \/ "error" \in LowerText(response)

ELDecideErrorFirst(response, exists, elapsed) ==
  IF HasErrorMarker(response) THEN "error"
  ELSE IF exists THEN "artifact"
  ELSE IF HasSuccessMarker(response) THEN "marker"
  ELSE IF elapsed > Ceiling THEN "ceiling"
  ELSE "continue"

ELDecideNoArtifact(response, exists, elapsed) ==
  IF HasSuccessMarker(response) THEN "marker"
  ELSE IF HasErrorMarker(response) THEN "error"
  ELSE IF elapsed > Ceiling THEN "ceiling"
  ELSE "continue"

ELDecideCeilingInclusive(response, exists, elapsed) ==
  IF exists THEN "artifact"
  ELSE IF HasSuccessMarker(response) THEN "marker"
  ELSE IF HasErrorMarker(response) THEN "error"
  ELSE IF elapsed >= Ceiling THEN "ceiling"
  ELSE "continue"

\* The chain of ifs of the receive loop, in the order the code tests them.
ELDecide(response, exists, elapsed) ==
  IF exists THEN "artifact"
  ELSE IF HasSuccessMarker(response) THEN "marker"
  ELSE IF HasErrorMarker(response) THEN "error"
  ELSE IF elapsed > Ceiling THEN "ceiling"
  ELSE "continue"

ELOutcome(dec) ==
  CASE dec \in {"artifact", "marker"} -> "Success"
    [] dec = "error"                  -> "Failure"
    [] dec = "ceiling"                -> "TimedOut"
    [] OTHER                          -> "Running"

ELBreaksNotOnCeiling(dec) == dec \notin {"continue", "ceiling"}

\* Every branch of the chain ends in break.
ELBreaks(dec) == dec # "continue"

\* ------------------------------------------- ElevenLabs runner: actions
\* test_all calls test_elevenlabs_tool(test_case).
Call ==
  /\ prog = "el" /\ spc = "call"
  /\ spc' = "running"
  /\ run' = FreshRun("header")
  /\ UNCHANGED <<prog, client, files, i, results, passed, total, rate, npause>>

\* The banner printed before the try block; an exception here is not caught
\* by the runner.
ELHeader ==
  /\ prog = "el" /\ run.pc = "header"
  /\ \E ok \in BOOLEAN :
       run' = IF ok THEN [run EXCEPT !.pc = "connect"]
              ELSE [run EXCEPT !.pc = "raised", !.outcome = "Raised",
                               !.reason = "uncaught"]
  /\ UNCHANGED <<prog, client, files, suiteVars>>

ELConnectRetries ==
  /\ prog = "el" /\ run.pc = "connect"
  /\ \E ok \in BOOLEAN :
       run' = IF ok
              THEN [run EXCEPT !.pc = "send", !.ws = "open", !.nopen = @ + 1]
              ELSE [run EXCEPT !.pc = IF run.nopen < 2 THEN "connect"
                                      ELSE "returned",
                               !.nopen = @ + 1,
                               !.outcome = "ConnectionError",
                               !.reason = "exception"]
  /\ UNCHANGED <<prog, client, files, suiteVars>>

ELConnect ==
  /\ prog = "el" /\ run.pc = "connect"
  /\ \E ok \in BOOLEAN :
       run' = IF ok
              THEN [run EXCEPT !.pc = "send", !.ws = "open", !.nopen = @ + 1]
              ELSE [run EXCEPT !.pc = "returned", !.nopen = @ + 1,
                               !.outcome = "ConnectionError",
                               !.reason = "exception"]
  /\ UNCHANGED <<prog, client, files, suiteVars>>

ELSendTwice ==
  /\ prog = "el" /\ run.pc = "send"
  /\ \E ok \in BOOLEAN :
       run' = IF ok
              THEN [run EXCEPT !.pc = IF run.nsend < 1 THEN "send" ELSE "recv",
                               !.nsend = @ + 1, !.clock = 0]
              ELSE [run EXCEPT !.pc = "returned", !.nsend = @ + 1,
                               !.ws = "closed",
                               !.outcome = "ConnectionError",
                               !.reason = "exception"]
  /\ UNCHANGED <<prog, client, files, suiteVars>>

ELSend ==
  /\ prog = "el" /\ run.pc = "send"
  /\ \E ok \in BOOLEAN :
       run' = IF ok
              THEN [run EXCEPT !.pc = "recv", !.nsend = @ + 1, !.clock = 0]
              ELSE [run EXCEPT !.pc = "returned", !.nsend = @ + 1,
                               !.ws = "closed",
                               !.outcome = "ConnectionError",
                               !.reason = "exception"]
  /\ UNCHANGED <<prog, client, files, suiteVars>>

\* One pass of the loop body in which recv returns frame f after d seconds.
ELRecvFrame ==
  /\ prog = "el" /\ run.pc = "recv"
  /\ run.nproc < MaxFrames
  /\ \E f \in ELFrames, d \in Delays :
       LET elapsed == run.clock + d
           exists == i \in files
           dec == ELDecide(Raw(f), exists, elapsed)
       IN run' = [run EXCEPT
                    !.frame = f, !.clock = elapsed, !.last = "frame",
                    !.file_seen = exists,
                    !.nrecv = @ + 1, !.nproc = @ + 1, !.nexists = @ + 1,
                    !.outcome = ELOutcome(dec),
                    !.reason = dec,
                    !.reported = IF dec = "ceiling" THEN elapsed ELSE @,
                    !.pc = IF dec = "marker" THEN "settle"
                           ELSE IF ELBreaks(dec) THEN "after_loop"
                           ELSE "recv"]
  /\ UNCHANGED <<prog, client, files, suiteVars>>

ELRecvTimeoutShort ==
  /\ prog = "el" /\ run.pc = "recv"
  /\ run' = [run EXCEPT
               !.clock = @ + 60, !.last = "timeout",
               !.nrecv = @ + 1,
               !.outcome = "TimedOut", !.reason = "recv_timeout",
               !.reported = run.clock + 60,
               !.pc = "after_loop"]
  /\ UNCHANGED <<prog, client, files, suiteVars>>

ELRecvTimeoutRetry ==
  /\ prog = "el" /\ run.pc = "recv"
  /\ run' = [run EXCEPT
               !.last = "timeout", !.nrecv = @ + 1,
               !.outcome = "TimedOut", !.reason = "recv_timeout",
               !.reported = run.clock + RecvTimeout,
               !.pc = IF run.nrecv < 2 THEN "recv" ELSE "after_loop"]
  /\ UNCHANGED <<prog, client, files, suiteVars>>

\* asyncio.wait_for gives up after RecvTimeout seconds.
ELRecvTimeout ==
  /\ prog = "el" /\ run.pc = "recv"
  /\ run' = [run EXCEPT
               !.clock = @ + RecvTimeout, !.last = "timeout",
               !.nrecv = @ + 1,
               !.outcome = "TimedOut", !.reason = "recv_timeout",
               !.reported = run.clock + RecvTimeout,
               !.pc = "after_loop"]
  /\ UNCHANGED <<prog, client, files, suiteVars>>

\* recv raises (the remote closed, the transport failed): only the outer
\* except catches it, after the with block has closed the socket.
ELRecvRaises ==
  /\ prog = "el" /\ run.pc = "recv"
  /\ \E d \in Delays :
       run' = [run EXCEPT
                 !.clock = @ + d, !.last = "raised", !.nrecv = @ + 1,
                 !.ws = "closed",
                 !.outcome = "ConnectionError", !.reason = "exception",
                 !.pc = "returned"]
  /\ UNCHANGED <<prog, client, files, suiteVars>>

ELSettlePolls ==
  /\ prog = "el" /\ run.pc = "settle"
  /\ run' = [run EXCEPT
               !.found = IF i \in files THEN "found" ELSE "missing",
               !.nsettle = @ + 1, !.nexists = @ + 1,
               !.pc = IF i \in files \/ run.nsettle >= 1 THEN "after_loop"
                      ELSE "settle"]
  /\ UNCHANGED <<prog, client, files, suiteVars>>

\* After a completion marker: sleep(1), one more look at the file, break.
ELSettle ==
  /\ prog = "el" /\ run.pc = "settle"
  /\ run' = [run EXCEPT
               !.found = IF i \in files THEN "found" ELSE "missing",
               !.nsettle = @ + 1, !.nexists = @ + 1,
               !.pc = "after_loop"]
  /\ UNCHANGED <<prog, client, files, suiteVars>>

ELExitLeak ==
  /\ prog = "el" /\ run.pc = "after_loop"
  /\ run' = [run EXCEPT !.pc = "returned"]
  /\ UNCHANGED <<prog, client, files, suiteVars>>

\* The total-time line, then the with block closes the socket and the
\* function returns.
ELExit ==
  /\ prog = "el" /\ run.pc = "after_loop"
  /\ run' = [run EXCEPT !.ws = "closed", !.pc = "returned"]
  /\ UNCHANGED <<prog, client, files, suiteVars>>

\* The expected file of the scenario under test comes into being: left by
\* an earlier run (before the call) or written by the backend.
FileAppears ==
  /\ prog = "el" /\ spc \in {"call", "running"}
  /\ i \notin files
  /\ files' = files \cup {i}
  /\ UNCHANGED <<prog, client, suiteVars, run>>

\* ---------------------------------------------------- test_all: the suite
PassResult(name) == [name |-> name, status |-> "PASS"]
FailResult(name) == [name |-> name, status |-> "FAIL"]
ErrorResult(name) == [name |-> name, status |-> "ERROR"]

AfterResultPauseLast(k) == IF k <= NumScenarios THEN "pause" ELSE "summary"

\* if i < len(TEST_CASES): sleep(3), else fall out of the for loop.
AfterResult(k) == IF k < NumScenarios THEN "pause" ELSE "summary"

VerdictAlwaysPass(name, exists) == PassResult(name)

VerdictAlwaysFail(name, exists) == FailResult(name)

\* if os.path.exists(expected_file): PASS, else FAIL "File not created".
VerdictResult(name, exists) ==
  IF exists THEN PassResult(name) ELSE FailResult(name)

OnRaiseDropped(res, name) == res

\* except Exception as e: results.append((name, ERROR, str(e)))
OnRaise(res, name) == Append(res, ErrorResult(name))

VerdictByOutcome ==
  /\ prog = "el" /\ spc = "running" /\ run.pc = "returned"
  /\ results' = Append(results, VerdictResult(i, run.outcome = "Success"))
  /\ spc' = AfterResult(i)
  /\ UNCHANGED <<prog, client, files, i, passed, total, rate, npause, run>>

\* The runner returned: the verdict is the existence of the expected file.
Verdict ==
  /\ prog = "el" /\ spc = "running" /\ run.pc = "returned"
  /\ results' = Append(results, VerdictResult(i, i \in files))
  /\ spc' = AfterResult(i)
  /\ UNCHANGED <<prog, client, files, i, passed, total, rate, npause, run>>

\* The runner raised: except Exception records an ERROR result.
SuiteExcept ==
  /\ prog = "el" /\ spc = "running" /\ run.pc = "raised"
  /\ results' = OnRaise(results, i)
  /\ spc' = AfterResult(i)
  /\ UNCHANGED <<prog, client, files, i, passed, total, rate, npause, run>>

\* await asyncio.sleep(3), then the next iteration of the for loop.
Pause ==
  /\ prog = "el" /\ spc = "pause"
  /\ npause' = npause + 1
  /\ i' = i + 1
  /\ spc' = "call"
  /\ UNCHANGED <<prog, client, files, results, passed, total, rate, run>>

CountPassedAlsoError(res) ==
  Cardinality({k \in 1..Len(res) : res[k].status # "FAIL"})

CountPassed(res) == Cardinality({k \in 1..Len(res) : res[k].status = "PASS"})

PassRateRounded(p, t) == (200 * p + t) \div (2 * t)

\* 100*passed//total
PassRate(p, t) == (100 * p) \div t

\* total - passed, the number of failed tests the summary prints
Failed(p, t) == t - p

Summary ==
  /\ prog = "el" /\ spc = "summary"
  /\ passed' = CountPassed(results)
  /\ total' = Len(results)
  /\ rate' = PassRate(CountPassed(results), Len(results))
  /\ spc' = "done"
  /\ UNCHANGED <<prog, client, files, i, results, npause, run>>

\* ------------------------------------------- multi-step runner: decisions
HasCompletionWord(content) ==
  \/ "completed" \in LowerText(content)
  \/ "finished" \in LowerText(content)
  \/ "done" \in LowerText(content)

MSDecideErrorUnnoticed(f, count) ==
  IF f.shape # "object" THEN "exception"
  ELSE IF f.type = "message" /\ ~f.str THEN "exception"
  ELSE IF f.type = "message" /\ HasCompletionWord(f.words) THEN "marker"
  ELSE IF count > FrameCap THEN "cap"
  ELSE "continue"

MSDecideCapLate(f, count) ==
  IF f.shape # "object" THEN "exception"
  ELSE IF f.type = "message" /\ ~f.str THEN "exception"
  ELSE IF f.type = "message" /\ HasCompletionWord(f.words) THEN "marker"
  ELSE IF f.type = "error" THEN "error"
  ELSE IF count > FrameCap + 1 THEN "cap"
  ELSE "continue"

\* The loop body after response_count += 1: json.loads raises on text that
\* is no JSON, data.get raises on a JSON value that is no object, and
\* content.lower() raises on a message whose content is no string.
MSDecide(f, count) ==
  IF f.shape # "object" THEN "exception"
  ELSE IF f.type = "message" /\ ~f.str THEN "exception"
  ELSE IF f.type = "message" /\ HasCompletionWord(f.words) THEN "marker"
  ELSE IF f.type = "error" THEN "error"
  ELSE IF count > FrameCap THEN "cap"
  ELSE "continue"

MSOutcome(dec) ==
  CASE dec = "marker"    -> "Success"
    [] dec = "error"     -> "Failure"
    [] dec = "cap"       -> "TimedOut"
    [] dec = "exception" -> "ConnectionError"
    [] OTHER             -> "Running"

MSBreaksNotOnError(dec) == dec \notin {"continue", "error"}

MSBreaks(dec) == dec # "continue"

\* ------------------------------------------- multi-step runner: actions
MSConnect ==
  /\ prog = "ms" /\ run.pc = "connect"
  /\ \E ok \in BOOLEAN :
       run' = IF ok
              THEN [run EXCEPT !.pc = "send", !.ws = "open", !.nopen = @ + 1]
              ELSE [run EXCEPT !.pc = "returned", !.nopen = @ + 1,
                               !.outcome = "ConnectionError",
                               !.reason = "exception"]
  /\ UNCHANGED <<prog, client, files, suiteVars>>

MSSend ==
  /\ prog = "ms" /\ run.pc = "send"
  /\ \E ok \in BOOLEAN :
       run' = IF ok
              THEN [run EXCEPT !.pc = "recv", !.nsend = @ + 1,
                               !.response_count = 0]
              ELSE [run EXCEPT !.pc = "returned", !.nsend = @ + 1,
                               !.ws = "closed",
                               !.outcome = "ConnectionError",
                               !.reason = "exception"]
  /\ UNCHANGED <<prog, client, files, suiteVars>>

\* One pass of the loop body in which recv returns frame f.
MSRecvFrame ==
  /\ prog = "ms" /\ run.pc = "recv"
  /\ \E f \in MSFrames :
       LET count == run.response_count + 1
           dec == MSDecide(f, count)
       IN run' = [run EXCEPT
                    !.frame = f, !.last = "frame", !.response_count = count,
                    !.nrecv = @ + 1, !.nproc = @ + 1,
                    !.outcome = MSOutcome(dec),
                    !.reason = dec,
                    !.ws = IF dec = "exception" THEN "closed" ELSE @,
                    !.pc = IF dec = "exception" THEN "returned"
                           ELSE IF MSBreaks(dec) THEN "after_loop"
                           ELSE "recv"]
  /\ UNCHANGED <<prog, client, files, suiteVars>>

\* except asyncio.TimeoutError: break
MSRecvTimeout ==
  /\ prog = "ms" /\ run.pc = "recv"
  /\ run' = [run EXCEPT
               !.last = "timeout", !.nrecv = @ + 1,
               !.outcome = "TimedOut", !.reason = "recv_timeout",
               !.pc = "after_loop"]
  /\ UNCHANGED <<prog, client, files, suiteVars>>

\* except websockets.exceptions.ConnectionClosed: break
MSRecvClosed ==
  /\ prog = "ms" /\ run.pc = "recv"
  /\ run' = [run EXCEPT
               !.last = "raised", !.nrecv = @ + 1,
               !.outcome = "ConnectionError", !.reason = "closed",
               !.pc = "after_loop"]
  /\ UNCHANGED <<prog, client, files, suiteVars>>

\* Any other exception of recv reaches the outer except.
MSRecvRaises ==
  /\ prog = "ms" /\ run.pc = "recv"
  /\ run' = [run EXCEPT
               !.last = "raised", !.nrecv = @ + 1, !.ws = "closed",
               !.outcome = "ConnectionError", !.reason = "exception",
               !.pc = "returned"]
  /\ UNCHANGED <<prog, client, files, suiteVars>>

MSExitLeak ==
  /\ prog = "ms" /\ run.pc = "after_loop"
  /\ run' = [run EXCEPT !.pc = "returned"]
  /\ UNCHANGED <<prog, client, files, suiteVars>>

\* break leaves the with block, which closes the socket.
MSExit ==
  /\ prog = "ms" /\ run.pc = "after_loop"
  /\ run' = [run EXCEPT !.ws = "closed", !.pc = "returned"]
  /\ UNCHANGED <<prog, client, files, suiteVars>>

\* ---------------------------------------------------------- REST client
\* not self.token
NoToken(c) == c.token \in {None, EmptyToken}

\* What the method returns for the parsed body: the body itself.
Returned(reply) == IF reply.success THEN "ok" ELSE "failed"

\* The body of register after the request: on success with a token key the
\* token is stored first, then result["user"] is looked up and stored; the
\* lookup raises KeyError when the key is missing.
RegisterResult(c, reply) ==
  IF reply.raises
  THEN [c EXCEPT !.op = "register", !.sent = TRUE, !.ret = "raised"]
  ELSE IF reply.success /\ reply.token # Absent
  THEN IF reply.user = Absent
       THEN [c EXCEPT !.token = reply.token,
                      !.op = "register", !.sent = TRUE, !.ret = "raised"]
       ELSE [c EXCEPT !.token = reply.token, !.user_info = reply.user,
                      !.op = "register", !.sent = TRUE, !.ret = "ok"]
  ELSE [c EXCEPT !.op = "register", !.sent = TRUE, !.ret = Returned(reply)]

\* The body of login: as register, and then the prints subscript
\* self.user_info, which raises TypeError when the user is null.
LoginResult(c, reply) ==
  IF reply.raises
  THEN [c EXCEPT !.op = "login", !.sent = TRUE, !.ret = "raised"]
  ELSE IF reply.success /\ reply.token # Absent
  THEN IF reply.user = Absent
       THEN [c EXCEPT !.token = reply.token,
                      !.op = "login", !.sent = TRUE, !.ret = "raised"]
       ELSE [c EXCEPT !.token = reply.token, !.user_info = reply.user,
                      !.op = "login", !.sent = TRUE,
                      !.ret = IF reply.user = None THEN "raised" ELSE "ok"]
  ELSE [c EXCEPT !.op = "login", !.sent = TRUE, !.ret = Returned(reply)]

Register ==
  /\ prog = "rc"
  /\ \E reply \in Replies \cup {Raises} :
       client' = RegisterResult(client, reply)
  /\ UNCHANGED <<prog, files, suiteVars, run>>

Login ==
  /\ prog = "rc"
  /\ \E reply \in Replies \cup {Raises} :
       client' = LoginResult(client, reply)
  /\ UNCHANGED <<prog, files, suiteVars, run>>

\* verify_token: without a token it answers by itself; otherwise a reply
\* that is no success clears token and user_info.
VerifyToken ==
  /\ prog = "rc"
  /\ IF NoToken(client)
     THEN client' = [client EXCEPT !.op = "verify_token", !.sent = FALSE,
                                   !.ret = "failed"]
     ELSE \E reply \in Replies \cup {Raises} :
            client' =
              IF reply.raises
              THEN [client EXCEPT !.op = "verify_token", !.sent = TRUE,
                                  !.ret = "raised"]
              ELSE IF reply.success
              THEN [client EXCEPT !.op = "verify_token", !.sent = TRUE,
                                  !.ret = "ok"]
              ELSE [client EXCEPT !.token = None, !.user_info = None,
                                  !.op = "verify_token", !.sent = TRUE,
                                  !.ret = "failed"]
  /\ UNCHANGED <<prog, files, suiteVars, run>>

AdminOps ==
  {"get_admin_stats", "get_whitelist_status", "toggle_whitelist",
   "add_email_to_whitelist", "get_whitelisted_emails",
   "remove_email_from_whitelist", "get_users_list"}

\* The admin and whitelist methods: without a token they answer "Not
\* authenticated" by themselves; otherwise they send the request and return
\* its body (or raise: on the request, or on a success body that lacks the
\* field they print).
AdminCall ==
  /\ prog = "rc"
  /\ \E op \in AdminOps :
       IF NoToken(client)
       THEN client' = [client EXCEPT !.op = op, !.sent = FALSE,
                                     !.ret = "failed"]
       ELSE \E ret \in {"ok", "failed", "raised"} :
              client' = [client EXCEPT !.op = op, !.sent = TRUE, !.ret = ret]
  /\ UNCHANGED <<prog, files, suiteVars, run>>

\* ------------------------------------------------------- specification
Next ==
  \/ Call \/ ELHeader \/ ELConnect \/ ELSend
  \/ ELRecvFrame \/ ELRecvTimeout \/ ELRecvRaises \/ ELSettle \/ ELExit
  \/ FileAppears
  \/ Verdict \/ SuiteExcept \/ Pause \/ Summary
  \/ MSConnect \/ MSSend
  \/ MSRecvFrame \/ MSRecvTimeout \/ MSRecvClosed \/ MSRecvRaises \/ MSExit
  \/ Register \/ Login \/ VerifyToken \/ AdminCall

Spec == Init /\ [][Next]_vars

\* The steps of the scripts themselves.  asyncio.run drives the coroutine
\* until it returns: every await comes back (connect and send complete or
\* raise, wait_for returns a frame, raises, or times out), so a script that
\* can take a step eventually takes one.  Whether a file ever appears is up
\* to the backend.
Progress ==
  \/ Call \/ ELHeader \/ ELConnect \/ ELSend
  \/ ELRecvFrame \/ ELRecvTimeout \/ ELRecvRaises \/ ELSettle \/ ELExit
  \/ Verdict \/ SuiteExcept \/ Pause \/ Summary
  \/ MSConnect \/ MSSend
  \/ MSRecvFrame \/ MSRecvTimeout \/ MSRecvClosed \/ MSRecvRaises \/ MSExit

FairSpec == Spec /\ WF_vars(Progress)

\* --------------------------------------------------------------- claims
\* The classification the specification gives a frame (its section 4.2): a
\* structured frame by its type, plain text by its markers, success first.
ClassifiedError(f) ==
  \/ f.shape = "object" /\ f.type = "error"
  \/ f.shape = "text" /\ ~HasSuccessMarker(f.words) /\ HasErrorMarker(f.words)

\* The attempt is over: the runner returned or raised.
Ended == run.pc \in {"returned", "raised"}

\* The suite has recorded the result of the attempt that run describes.
Recorded == prog = "el" /\ spc \in {"pause", "summary", "done"}

LastStatus == results[Len(results)].status

\* C1: in both runners an attempt that is over has reached a terminal
\* outcome, and once an outcome is reached it never changes and no further
\* receive is issued and no further frame is processed in that attempt.
C1_OneTerminalOutcome ==
  [][/\ run'.pc \in {"returned", "raised"} => run'.outcome # "Running"
     /\ (run.outcome # "Running" /\ spc # "call")
          => /\ run'.outcome = run.outcome
             /\ run'.reason = run.reason
             /\ run'.nrecv = run.nrecv
             /\ run'.nproc = run.nproc
             /\ run'.frame = run.frame]_vars

\* An ElevenLabs attempt that ended on its first frame although the backend
\* had more frames to deliver.
C1_Witness ==
  /\ prog = "el" /\ run.pc = "returned" /\ run.outcome = "Failure"
  /\ run.nproc = 1 /\ run.nproc < MaxFrames /\ run.nrecv = 1

\* C2 as stated: a structured frame of type "error" received while the
\* attempt runs makes the outcome Failure, in either runner.
C2_ErrorFrameFails ==
  (run.last = "frame" /\ run.frame.shape = "object" /\ run.frame.type = "error")
    => run.outcome = "Failure"

\* C2 as amended: in the multi-step runner a structured frame of type
\* "error" makes the outcome Failure after any number of earlier frames; in
\* the ElevenLabs runner it does so only if the expected file does not exist
\* when the frame is evaluated and the frame's text holds no success marker,
\* and otherwise the outcome is Success.
C2_ErrorFrameOutcome ==
  (run.last = "frame" /\ run.frame.shape = "object" /\ run.frame.type = "error")
    => run.outcome =
         IF prog = "el" /\ (run.file_seen \/ HasSuccessMarker(Raw(run.frame)))
         THEN "Success" ELSE "Failure"

\* A multi-step attempt that failed on an error frame after earlier frames.
C2_Witness ==
  /\ prog = "ms" /\ run.frame.type = "error" /\ run.outcome = "Failure"
  /\ run.response_count >= 3 /\ run.pc = "returned"

\* C3 as stated: Error comes first in the priority order, so a frame
\* classified as Error that is evaluated while the expected file exists
\* makes the outcome Failure.
C3_ErrorBeforeArtifact ==
  (prog = "el" /\ run.last = "frame" /\ ClassifiedError(run.frame)
     /\ run.file_seen)
    => run.outcome = "Failure"

\* C3 as amended: the ElevenLabs runner tests artifact-exists, then the
\* completion marker, then the error marker, then the ceiling; the multi-step
\* runner tests completion marker, then error, then the frame cap.  A frame
\* classified as Error evaluated while the file exists gives Success.
C3_CodeOrder ==
  /\ (prog = "el" /\ run.last = "frame") =>
       /\ (ClassifiedError(run.frame) /\ run.file_seen)
            => (run.outcome = "Success" /\ run.reason = "artifact")
       /\ (~run.file_seen /\ HasSuccessMarker(Raw(run.frame))
             /\ HasErrorMarker(Raw(run.frame)))
            => (run.outcome = "Success" /\ run.reason = "marker")
       /\ (~run.file_seen /\ ~HasSuccessMarker(Raw(run.frame))
             /\ HasErrorMarker(Raw(run.frame)) /\ run.clock > Ceiling)
            => run.outcome = "Failure"
  /\ (prog = "ms" /\ run.last = "frame" /\ run.frame.shape = "object") =>
       /\ (run.frame.type = "error" /\ run.response_count > FrameCap)
            => run.outcome = "Failure"
       /\ (run.frame.type = "message" /\ HasCompletionWord(run.frame.words)
             /\ run.response_count > FrameCap)
            => run.outcome = "Success"

\* An Error frame met the existing file and the attempt ended as Success.
C3_Witness ==
  /\ prog = "el" /\ run.pc = "returned" /\ run.last = "frame"
  /\ ClassifiedError(run.frame) /\ run.file_seen
  /\ run.outcome = "Success"

\* C4: whenever the ElevenLabs runner evaluates a frame while the expected
\* file exists, the attempt ends with outcome Success, whatever the frame
\* says.
C4_ArtifactMeansSuccess ==
  (prog = "el" /\ run.last = "frame" /\ run.file_seen)
    => /\ run.outcome = "Success"
       /\ run.reason = "artifact"
       /\ run.pc \in {"after_loop", "returned"}
       /\ run.nsettle = 0

\* Success by the file alone: no frame of the attempt held a success marker
\* (an earlier frame with one would have ended the attempt).
C4_Witness ==
  /\ prog = "el" /\ run.pc = "returned" /\ run.last = "frame"
  /\ run.file_seen /\ run.outcome = "Success"
  /\ ~HasSuccessMarker(Raw(run.frame)) /\ run.nproc = 2

\* C5 as stated: an attempt in which nothing terminal fired before the
\* ceiling elapsed ends TimedOut with a reported elapsed time >= the ceiling.
C5_CeilingMeansTimedOut ==
  (prog = "el" /\ run.pc = "returned" /\ run.clock > Ceiling
     /\ run.outcome # "ConnectionError")
    => (run.outcome = "TimedOut" /\ run.reported >= Ceiling)

\* C5 as amended: the ceiling is tested last and only when a frame arrives.
\* A frame evaluated after more than 120 s that shows no file, no completion
\* marker and no error marker ends the attempt TimedOut, and so does a
\* receive that waits 180 s; every TimedOut outcome reports an elapsed time
\* above the ceiling.  A frame that arrives after the ceiling and shows the
\* file or a marker still ends the attempt as Success or Failure.
C5_TimedOutAfterCeiling ==
  prog = "el" =>
    /\ run.outcome = "TimedOut"
         => (run.reported > Ceiling /\ run.reported = run.clock)
    /\ run.last = "timeout" => run.outcome = "TimedOut"
    /\ (run.last = "frame" /\ run.clock > Ceiling) =>
         run.outcome =
           IF run.file_seen \/ HasSuccessMarker(Raw(run.frame)) THEN "Success"
           ELSE IF HasErrorMarker(Raw(run.frame)) THEN "Failure"
           ELSE "TimedOut"
    /\ (run.last = "frame" /\ run.clock <= Ceiling)
         => run.outcome # "TimedOut"

\* An attempt ended by the ceiling test.
C5_Witness ==
  /\ prog = "el" /\ run.pc = "returned" /\ run.outcome = "TimedOut"
  /\ run.reason = "ceiling" /\ run.last = "frame" /\ run.reported > Ceiling

\* C6 as stated: when a completion marker ended the attempt and the file is
\* still missing after the settle delay, the outcome stays Success, also in
\* the result the suite records for the scenario.
C6_SuiteKeepsSuccess ==
  (Recorded /\ run.pc = "returned" /\ run.reason = "marker"
     /\ run.found = "missing")
    => (run.outcome = "Success" /\ LastStatus = "PASS")

\* C6 as amended: the runner reports the artifact as not found and keeps the
\* outcome Success (the completion message is never retracted); the suite
\* records the scenario from its own existence check after the attempt:
\* FAIL if the file is still absent, PASS only if it has appeared by then.
C6_MissingArtifactKeepsOutcome ==
  (prog = "el" /\ run.reason = "marker") =>
    /\ run.outcome = "Success"
    /\ run.found = "missing" => run.nsettle = 1
    /\ (Recorded /\ run.found = "missing")
         => /\ LastStatus \in {"PASS", "FAIL"}
            /\ LastStatus = "PASS" <=> i \in files

\* The marker ended the attempt, the file never came, the suite wrote FAIL.
C6_Witness ==
  /\ Recorded /\ run.reason = "marker" /\ run.found = "missing"
  /\ run.outcome = "Success" /\ LastStatus = "FAIL"

\* C7 as stated: an attempt that ends on an Error frame has made no artifact
\* existence check.
C7_NoCheckOnError ==
  (Ended /\ run.outcome = "Failure") => run.nexists = 0

\* C7 as amended: the ElevenLabs runner checks the artifact's existence once
\* for every frame it receives, before it looks at the frame, so an attempt
\* that ends on an error marker has checked on that very frame and found no
\* file; only the re-check after the settle delay is reserved for a
\* completion marker.  The multi-step runner never checks.
C7_ChecksPerFrame ==
  /\ run.nexists = (IF prog = "el" THEN run.nproc ELSE 0) + run.nsettle
  /\ run.nsettle > 0 => (prog = "el" /\ run.reason = "marker")
  /\ (prog = "el" /\ run.outcome = "Failure")
       => /\ run.nexists = run.nproc
          /\ run.nexists >= 1
          /\ ~run.file_seen
          /\ run.found = "unchecked"

\* An ElevenLabs attempt that ended on an error marker, with its checks.
C7_Witness ==
  /\ prog = "el" /\ run.pc = "returned" /\ run.outcome = "Failure"
  /\ ClassifiedError(run.frame) /\ run.nexists = 2

\* C8 as stated: a scenario whose attempt ended by a timeout or by an Error
\* frame is never counted as passed.
C8_TimeoutOrErrorFails ==
  (Recorded /\ run.outcome \in {"TimedOut", "Failure"})
    => LastStatus # "PASS"

\* C8 as amended: such a scenario is counted as failed exactly when the
\* expected file does not exist at the check made after the attempt returns;
\* when the file exists then, it is counted as passed.
C8_VerdictByFile ==
  (Recorded /\ run.outcome \in {"TimedOut", "Failure"}) =>
    /\ LastStatus = "FAIL" <=> i \notin files
    /\ LastStatus = "PASS" <=> i \in files
    /\ spc = "done" =>
         (passed = CountPassed(results) /\ total - passed >= 0)

\* A scenario that timed out and was recorded as passed.
C8_Witness ==
  /\ Recorded /\ run.outcome = "TimedOut" /\ LastStatus = "PASS"

\* C9: the suite runs every scenario in list order, appends exactly one
\* result per scenario in that order, is never stuck before the summary, and
\* reaches the summary with one result for each scenario.
C9_SuiteCompletes ==
  prog = "el" =>
    /\ \A k \in 1..Len(results) : results[k].name = k
    /\ Len(results) = IF spc \in {"call", "running"} THEN i - 1 ELSE i
    /\ i \in 1..NumScenarios
    /\ spc \in {"summary", "done"} => Len(results) = NumScenarios
    /\ spc = "done" => total = NumScenarios
    /\ spc # "done" => ENABLED Next

\* The summary was reached although every scenario raised.
C9_Witness ==
  /\ prog = "el" /\ spc = "done" /\ Len(results) = NumScenarios
  /\ \A k \in 1..Len(results) : results[k].status = "ERROR"

\* C10 as stated: the summary's pass rate is 100 * passed / total rounded to
\* the nearest integer.
C10_RateRounded ==
  (prog = "el" /\ spc = "done") => rate = PassRateRounded(passed, total)

\* C10 as amended: the summary's pass rate is 100 * passed / total rounded
\* down (2 passed of 3 reports 66).
C10_RateFloor ==
  (prog = "el" /\ spc = "done") =>
    /\ total = Len(results) /\ total >= 1
    /\ passed = CountPassed(results)
    /\ rate * total <= 100 * passed
    /\ 100 * passed < (rate + 1) * total

\* Two of three scenarios passed and the summary printed 66.
C10_Witness ==
  /\ prog = "el" /\ spc = "done" /\ passed = 2 /\ total = 3 /\ rate = 66

\* Results the summary has to count as failed: FAIL and ERROR.
CountFailed(res) ==
  Cardinality({k \in 1..Len(res) : res[k].status \in {"FAIL", "ERROR"}})

\* C11: in the summary passed + failed = total, total is the number of
\* scenarios, and every recorded result (PASS, FAIL or ERROR) is counted in
\* exactly one of passed and failed.
C11_PassedPlusFailed ==
  (prog = "el" /\ spc = "done") =>
    /\ total = NumScenarios
    /\ passed + Failed(passed, total) = total
    /\ passed = Cardinality({k \in 1..Len(results) :
                               results[k].status = "PASS"})
    /\ Failed(passed, total) = CountFailed(results)
    /\ \A k \in 1..Len(results) :
         results[k].status \in {"PASS", "FAIL", "ERROR"}

\* A summary over one result of each status.
C11_Witness ==
  /\ prog = "el" /\ spc = "done" /\ passed = 1 /\ total = 3
  /\ {results[k].status : k \in 1..Len(results)} = {"PASS", "FAIL", "ERROR"}

\* C12: in both runners the connection opened for an attempt is closed on
\* every exit path; once the attempt has ended no connection is open, and
\* none is open while the suite is between two attempts.
C12_ClosedOnEveryExit ==
  /\ Ended => run.ws # "open"
  /\ (Ended /\ run.nsend >= 1) => run.ws = "closed"
  /\ run.ws = "open" => run.pc \in {"send", "recv", "settle", "after_loop"}
  /\ (prog = "el" /\ spc \in {"call", "pause", "summary", "done"})
       => run.ws # "open"

\* An attempt that ended because recv raised after a frame, socket closed.
C12_Witness ==
  /\ run.pc = "returned" /\ run.last = "raised" /\ run.nrecv = 2
  /\ run.ws = "closed"

\* C13: across a suite run a connection is opened only for the scenario
\* under test, at most once per attempt, while the results of exactly the
\* earlier scenarios are recorded; the attempt's result is recorded, and the
\* next scenario's connection opened, only after that connection is closed.
C13_OneConnectionAtATime ==
  [][prog = "el" =>
       /\ run.ws = "open"
            => (spc = "running" /\ Len(results) = i - 1 /\ run.nopen = 1)
       /\ (run'.ws = "open" /\ run.ws # "open")
            => (run.ws = "none" /\ run.nopen = 0 /\ Len(results) = i - 1)
       /\ Len(results') # Len(results) => run.ws # "open"
       /\ i' # i => (run.ws # "open" /\ Len(results) = i)]_vars

\* The second scenario's connection is open, the first one's result is in.
C13_Witness ==
  /\ prog = "el" /\ i = 2 /\ run.ws = "open" /\ Len(results) = 1
  /\ run.pc = "recv"

\* C14: when a receive exceeds the per-receive timeout the attempt ends at
\* once as TimedOut; no receive, send or connect follows in that attempt.
C14_RecvTimeoutEndsAttempt ==
  [][/\ run'.last = "timeout"
          => (run'.outcome = "TimedOut" /\ run'.reason = "recv_timeout"
              /\ run'.pc \in {"after_loop", "returned"})
     /\ (run.last = "timeout" /\ spc # "call")
          => /\ run'.nrecv = run.nrecv
             /\ run'.nsend = run.nsend
             /\ run'.nopen = run.nopen
             /\ run'.outcome = "TimedOut"
             /\ run'.nsend = 1 /\ run'.nopen = 1]_vars

\* An ElevenLabs attempt whose second receive timed out, now returned.
C14_Witness ==
  /\ prog = "el" /\ run.pc = "returned" /\ run.last = "timeout"
  /\ run.nrecv = 2 /\ run.nproc = 1 /\ run.outcome = "TimedOut"

\* C15 as stated: the per-receive timeout is strictly shorter than the
\* per-scenario ceiling, so a receive that times out has waited less than
\* the ceiling.
C15_RecvTimeoutBelowCeiling ==
  (prog = "el" /\ run.last = "timeout" /\ run.nrecv = 1)
    => (run.reported < Ceiling /\ RecvTimeout < Ceiling)

\* C15 as amended: in the ElevenLabs runner, the only runner with both
\* deadlines, the per-receive timeout (180 s) is strictly longer than the
\* per-scenario ceiling (120 s): a receive that times out has alone waited
\* longer than the ceiling.
C15_RecvTimeoutAboveCeiling ==
  (prog = "el" /\ run.last = "timeout") =>
    /\ run.reported >= RecvTimeout
    /\ run.reported > Ceiling
    /\ run.nrecv = 1 => (run.reported = RecvTimeout /\ run.clock = RecvTimeout)
    /\ RecvTimeout > Ceiling

\* The first receive of an attempt timed out after 180 s.
C15_Witness ==
  /\ prog = "el" /\ run.last = "timeout" /\ run.nrecv = 1
  /\ run.reported = 180 /\ run.pc = "returned"

\* A multi-step frame that is terminal by itself: a message with a
\* completion word, or an error.
MSTerminalFrame(f) ==
  \/ f.type = "message" /\ f.words \cap {"completed", "FINISHED", "Done"} # {}
  \/ f.type = "error"

\* C16: in the multi-step runner the attempt stops once more than 20 frames
\* are counted: the 21st frame, unless it is terminal by itself, ends the
\* attempt with the cap outcome, and no attempt receives more than 21 frames.
C16_FrameCap ==
  prog = "ms" =>
    /\ run.response_count <= FrameCap + 1
    /\ run.nproc = run.response_count
    /\ run.response_count > FrameCap
         => (run.outcome # "Running" /\ run.pc \in {"after_loop", "returned"})
    /\ (run.response_count > FrameCap /\ run.frame.shape = "object"
          /\ ~MSTerminalFrame(run.frame)
          /\ (run.frame.type = "message" => run.frame.str))
         => (run.outcome = "TimedOut" /\ run.reason = "cap")
    /\ run.reason = "cap" => run.response_count = FrameCap + 1

\* The 21st frame was a progress frame and the cap ended the attempt.
C16_Witness ==
  /\ prog = "ms" /\ run.pc = "returned" /\ run.response_count = 21
  /\ run.frame.type = "progress" /\ run.outcome = "TimedOut"
  /\ run.reason = "cap"

\* C17: a frame that does not decode as structured data, or that decodes but
\* carries no known type, does not end the attempt: the multi-step receive
\* loop goes on to the next frame (as long as the frame cap allows).
C17_UnknownFrameNonFatal ==
  (prog = "ms" /\ run.last = "frame" /\ run.response_count <= FrameCap
     /\ (run.frame.shape \in {"text", "array"}
           \/ run.frame.type \in {"other", "absent"}))
    => (run.outcome = "Running" /\ run.pc = "recv" /\ run.ws = "open")

\* C18: an exception of connect, send or receive that is no timeout ends the
\* attempt with outcome ConnectionError; no connect, send or receive follows
\* in that attempt.
C18_ConnectionErrorEndsAttempt ==
  [][/\ run'.last = "raised"
          => (run'.outcome = "ConnectionError" /\ run'.pc # "recv")
     /\ (run'.pc = "returned" /\ run.pc \in {"connect", "send"})
          => (run'.outcome = "ConnectionError" /\ run'.nrecv = 0)
     /\ (run.outcome = "ConnectionError" /\ spc # "call")
          => /\ run'.outcome = "ConnectionError"
             /\ run'.nopen = run.nopen
             /\ run'.nsend = run.nsend
             /\ run'.nrecv = run.nrecv
             /\ run'.nopen = 1]_vars

\* connect raised in the ElevenLabs runner and the attempt is over.
C18_Witness ==
  /\ prog = "el" /\ run.pc = "returned" /\ run.outcome = "ConnectionError"
  /\ run.nopen = 1 /\ run.nsend = 0 /\ run.nrecv = 0 /\ run.ws = "none"

\* The content holds "completed", "finished" or "done" in some letter case.
HoldsCompletionWord(f) == f.words \cap {"completed", "FINISHED", "Done"} # {}

\* C19 as stated: in the multi-step runner a frame ends the attempt as a
\* textual Success exactly when it is a message whose content holds a
\* completion word; a message without one, and a progress frame with one,
\* leave the attempt Running.
C19_MarkerIffSuccess ==
  (prog = "ms" /\ run.last = "frame" /\ run.frame.shape = "object") =>
    /\ run.outcome = "Success"
         <=> (run.frame.type = "message" /\ HoldsCompletionWord(run.frame))
    /\ (run.frame.type = "message" /\ ~HoldsCompletionWord(run.frame))
         => (run.outcome = "Running" /\ run.pc = "recv")
    /\ (run.frame.type = "progress" /\ HoldsCompletionWord(run.frame))
         => (run.outcome = "Running" /\ run.pc = "recv")

\* C19 as amended: a frame ends the attempt as a textual Success exactly
\* when it is a message whose content holds a completion word (in any letter
\* case); a message whose content is a string without one, and a progress
\* frame with one, leave the attempt Running while at most 20 frames are
\* counted, and as the 21st frame they end it by the frame cap; a message
\* whose content is no string ends the attempt in the outer except.
C19_MarkerIffSuccessUnderCap ==
  (prog = "ms" /\ run.last = "frame" /\ run.frame.shape = "object") =>
    /\ run.outcome = "Success"
         <=> (run.frame.type = "message" /\ HoldsCompletionWord(run.frame))
    /\ (\/ run.frame.type = "message" /\ run.frame.str
             /\ ~HoldsCompletionWord(run.frame)
        \/ run.frame.type = "progress" /\ HoldsCompletionWord(run.frame))
         => IF run.response_count <= FrameCap
            THEN run.outcome = "Running" /\ run.pc = "recv"
            ELSE run.outcome = "TimedOut" /\ run.reason = "cap"
    /\ (run.frame.type = "message" /\ ~run.frame.str)
         => (run.outcome = "ConnectionError" /\ run.pc = "returned")

\* A message with an upper-case completion word ended the attempt.
C19_Witness ==
  /\ prog = "ms" /\ run.pc = "returned" /\ run.outcome = "Success"
  /\ run.frame.type = "message" /\ run.frame.words = {"FINISHED"}
  /\ run.response_count = 2

\* C20: within an attempt the settle delay is waited at most once, only
\* after a frame with a completion marker arrived while the immediate check
\* did not find the file, and one re-check of the file follows it.
C20_SettleOnce ==
  /\ run.nsettle <= 1
  /\ prog = "ms" => run.nsettle = 0
  /\ run.pc = "settle"
       => (run.nsettle = 0 /\ run.reason = "marker" /\ ~run.file_seen
           /\ HasSuccessMarker(Raw(run.frame)))
  /\ run.nsettle = 1
       => /\ run.reason = "marker" /\ ~run.file_seen
          /\ HasSuccessMarker(Raw(run.frame))
          /\ run.found \in {"found", "missing"}
          /\ run.nexists = run.nproc + 1
          /\ run.pc \in {"after_loop", "returned"}
  /\ run.nsettle = 0 => run.found = "unchecked"

\* The settle delay was waited once and the re-check found the file.
C20_Witness ==
  /\ prog = "el" /\ run.pc = "returned" /\ run.nsettle = 1
  /\ run.found = "found" /\ ~run.file_seen /\ run.nexists = 2

\* C21: every attempt opens once, then sends the stimulus exactly once, then
\* receives, then closes: no receive before the send, no second send, no
\* second open, and nothing is sent or received once the socket is closed.
C21_OpenSendRecvClose ==
  [][/\ run'.nopen > run.nopen
          => (run.ws = "none" /\ run.nopen = 0 /\ run.nsend = 0
              /\ run.nrecv = 0)
     /\ run'.nsend > run.nsend
          => (run.ws = "open" /\ run.nopen = 1 /\ run.nsend = 0
              /\ run.nrecv = 0)
     /\ run'.nrecv > run.nrecv
          => (run.ws = "open" /\ run.nopen = 1 /\ run.nsend = 1)
     /\ (run.ws = "open" /\ run'.ws = "closed") => run'.nsend = 1
     /\ (run.ws = "closed" /\ ~(spc = "call" /\ spc' = "running"))
          => /\ run'.ws = "closed"
             /\ run'.nopen = run.nopen
             /\ run'.nsend = run.nsend
             /\ run'.nrecv = run.nrecv]_vars

\* A multi-step attempt that opened, sent once, received three times and
\* closed.
C21_Witness ==
  /\ prog = "ms" /\ run.pc = "returned" /\ run.ws = "closed"
  /\ run.nopen = 1 /\ run.nsend = 1 /\ run.nrecv = 3

\* C22: the suite pauses once between two consecutive scenarios and not
\* after the last one: scenario i starts after i-1 pauses, a pause is taken
\* only with the result of scenario i recorded, its connection closed and a
\* scenario left to run, and the summary is reached after N-1 pauses.
C22_PausesBetweenScenarios ==
  prog = "el" =>
    /\ npause = i - 1
    /\ spc = "pause"
         => (i < NumScenarios /\ Len(results) = i /\ run.ws # "open")
    /\ spc \in {"summary", "done"}
         => (npause = NumScenarios - 1 /\ Len(results) = NumScenarios)

\* The summary of a suite of three scenarios is printed after two pauses.
C22_Witness ==
  /\ prog = "el" /\ spc = "done" /\ npause = 2 /\ i = 3
  /\ Len(results) = 3

\* The text of the frame holds the success glyph or "saved to" in some
\* letter case; the error glyph or "error".
HoldsSuccessMarker(f) == Raw(f) \cap {CheckGlyph, "SAVED TO"} # {}

HoldsErrorMarker(f) == Raw(f) \cap {CrossGlyph, "error"} # {}

\* C23 as stated: in the ElevenLabs runner a frame that holds both a success
\* marker and an error marker ends the attempt as completed, and a frame
\* that holds neither leaves the attempt running.
C23_SuccessMarkerFirst ==
  (prog = "el" /\ run.last = "frame") =>
    /\ (HoldsSuccessMarker(run.frame) /\ HoldsErrorMarker(run.frame))
         => run.outcome = "Success"
    /\ (~HoldsSuccessMarker(run.frame) /\ ~HoldsErrorMarker(run.frame))
         => (run.outcome = "Running" /\ run.pc = "recv")

\* C23 as amended: a frame that holds both markers ends the attempt as
\* completed, by the artifact check if the file exists and by the success
\* marker otherwise, never as an error; a frame that holds neither leaves
\* the attempt running only if the file does not exist when the frame is
\* evaluated and at most 120 s have elapsed: if the file exists the attempt
\* ends as Success, otherwise after more than 120 s it ends as TimedOut.
C23_SuccessMarkerFirstAfterArtifact ==
  (prog = "el" /\ run.last = "frame") =>
    /\ (HoldsSuccessMarker(run.frame) /\ HoldsErrorMarker(run.frame))
         => /\ run.outcome = "Success"
            /\ run.reason = IF run.file_seen THEN "artifact" ELSE "marker"
    /\ (~HoldsSuccessMarker(run.frame) /\ ~HoldsErrorMarker(run.frame))
         => IF run.file_seen
            THEN run.outcome = "Success" /\ run.reason = "artifact"
            ELSE IF run.clock > Ceiling
            THEN run.outcome = "TimedOut" /\ run.reason = "ceiling"
            ELSE run.outcome = "Running" /\ run.pc = "recv"

\* A plain-text frame with "SAVED TO" and "error" ended the attempt by the
\* success marker, the file absent.
C23_Witness ==
  /\ prog = "el" /\ run.pc = "returned" /\ run.last = "frame"
  /\ run.frame.shape = "text" /\ run.frame.words = {"SAVED TO", "error"}
  /\ ~run.file_seen /\ run.outcome = "Success" /\ run.reason = "marker"

\* The attempt has started and is not over.
InAttempt ==
  run.pc \in {"header", "connect", "send", "recv", "settle", "after_loop"}

\* C24: every attempt that has started eventually ends, whatever the
\* backend sends: the ElevenLabs runner starts no receive once the elapsed
\* time it measured has passed 120 s, the multi-step runner starts none once
\* more than 20 frames are counted, and a receive that is waiting can always
\* end by its timeout.
C24_AttemptsTerminate ==
  /\ []((prog = "el" /\ run.pc = "recv") => run.clock <= Ceiling)
  /\ []((prog = "ms" /\ run.pc = "recv") => run.response_count <= FrameCap)
  /\ [](run.pc = "recv" => ENABLED (ELRecvTimeout \/ MSRecvTimeout))
  /\ (InAttempt ~> Ended)

\* A multi-step attempt that a stream of 21 non-terminal frames could not
\* keep alive.
C24_Witness ==
  /\ prog = "ms" /\ run.pc = "returned" /\ run.nrecv = 21
  /\ run.reason = "cap" /\ run.frame.type = "other"

\* C25: when the attempt of scenario i returned without raising, the suite
\* appends for it PASS if the expected file exists at that moment and FAIL
\* if it does not, whatever outcome the receive loop ended with.
C25_VerdictOnlyByFile ==
  [][(prog = "el" /\ run.pc = "returned" /\ Len(results') = Len(results) + 1)
       => /\ results'[Len(results')].name = i
          /\ results'[Len(results')].status
               = IF i \in files THEN "PASS" ELSE "FAIL"
          /\ SubSeq(results', 1, Len(results)) = results]_vars

\* An attempt that ended in a connection error is recorded as passed,
\* because the file was there.
C25_Witness ==
  /\ Recorded /\ run.pc = "returned" /\ run.outcome = "ConnectionError"
  /\ LastStatus = "PASS" /\ i \in files

\* C26: in the REST client token is None exactly when user_info is None,
\* after any calls and replies; and an admin or whitelist method called
\* while token is None issues no request, returns a failure result and
\* leaves token and user_info as they were.
C26_TokenIffUserInfo ==
  prog = "rc" =>
    /\ client.token = None <=> client.user_info = None
    /\ (client.op \in AdminOps /\ client.token = None)
         => (~client.sent /\ client.ret = "failed")

=============================================================================
